---- MODULE Spec2Model ----
\* A model of TrackableBodyStream (src/src/lib.rs): a futures::Stream that
\* reads its input in chunks of at most buffer_size bytes, counts the bytes
\* read and reports every chunk to an optional callback.
EXTENDS Integers, Sequences, FiniteSets, TLC

\* ------------------------------------------------------------------ bounds

\* Longest small source, in bytes.
MaxLen == 3
\* Number of poll_next calls recorded per run.
MaxPulls == 5
\* Number of events per run that disturb a plain sequence of pulls: a read
\* left pending, a read that fails, and a setter call (set_buffer_size,
\* set_callback, with_callback) made after the first poll_next. Setter calls
\* before the first poll_next are not limited.
MaxDisturbances == 1

\* ------------------------------------------------------------- constants

DEFAULT_BUFFER_SIZE == 2048

\* callback: None
None == "none"

\* The callbacks a caller may install.
Callbacks == {"cb1", "cb2"}

\* The errors a read of the source may report.
IoErrors == {"Interrupted", "Other"}

\* --------------------------------------------------------------- sources

\* The byte at offset i (from 1) of a test source: never 0, and distinct from
\* its neighbours, so that a gap, an overlap or a padding byte shows.
ByteAt(i) == ((i - 1) % 255) + 1

SourceOfLen(n) == [i \in 1..n |-> ByteAt(i)]

\* The 5000-byte source of the specification's scenario.
ScenarioSource == SourceOfLen(5000)

Min(a, b) == IF a < b THEN a ELSE b

RECURSIVE SumLen(_)
SumLen(chunks) ==
    IF chunks = <<>> THEN 0 ELSE Len(Head(chunks)) + SumLen(Tail(chunks))

RECURSIVE Concat(_)
Concat(chunks) ==
    IF chunks = <<>> THEN <<>> ELSE Head(chunks) \o Concat(Tail(chunks))

\* ------------------------------------------------------- 64-bit integers

\* A u64 is kept as its four 16-bit limbs, least significant first, so that
\* values up to 2^64 - 1 and the wrap at 2^64 are exact.
Limb == 65536

\* The u64 of a small number (below 2^31).
U64Of(n) == <<n % Limb, n \div Limb, 0, 0>>

U64Zero == <<0, 0, 0, 0>>

\* i64::MAX as u64, 2^63, and u64::MAX.
U64MaxSigned == <<Limb - 1, Limb - 1, Limb - 1, (Limb \div 2) - 1>>
U64TopBit == <<0, 0, 0, Limb \div 2>>
U64Max == <<Limb - 1, Limb - 1, Limb - 1, Limb - 1>>

\* a < b, as u64.
U64Less(a, b) ==
    \E i \in 1..4 : a[i] < b[i] /\ \A j \in (i + 1)..4 : a[j] = b[j]

\* The borrow out of limb i of a - b (0 below the first limb).
RECURSIVE Borrow(_, _, _)
Borrow(a, b, i) ==
    IF i = 0 THEN 0
    ELSE IF a[i] - b[i] - Borrow(a, b, i - 1) < 0 THEN 1 ELSE 0

\* a - b modulo 2^64 (wrapping_sub).
U64WrappingSub(a, b) ==
    [i \in 1..4 |-> (a[i] - b[i] - Borrow(a, b, i - 1) + Limb) % Limb]

\* ----------------------------------------------------------------- state

VARIABLES
    input,        \* the source (see Source)
    file_size,    \* the size captured at construction, a u64
    cur_read,     \* bytes read so far
    callback,     \* None, or the installed callback
    buffer_size,  \* capacity of the buffer of the next read
    results,      \* what each poll_next returned, in order
    calls,        \* the callback invocations, in order
    configs,      \* number of setter calls since the first poll_next
    requested,    \* the last callback and <<size>> handed to the setters, if any
    plain         \* the same stream had no callback ever been installed

vars ==
    <<input, file_size, cur_read, callback, buffer_size, results, calls, configs,
      requested, plain>>

\* A source that was not read yet: its kind, the bytes it holds, the offset of
\* the next byte to read, and what its reads did so far: the number of polls,
\* the number of those it left pending, and the errors it failed with.
Source(kind, value) ==
    [kind |-> kind, data |-> value, pos |-> 0, polls |-> 0, pendings |-> 0,
     errs |-> <<>>]

\* The bytes of the source not yet consumed.
Remaining(inp) == Len(inp.data) - inp.pos

\* The chunks yielded so far, in order.
RECURSIVE ChunksOf(_)
ChunksOf(rs) ==
    IF rs = <<>> THEN <<>>
    ELSE IF Head(rs).tag = "chunk" THEN <<Head(rs).bytes>> \o ChunksOf(Tail(rs))
    ELSE ChunksOf(Tail(rs))

RECURSIVE CountTag(_, _)
CountTag(rs, tag) ==
    IF rs = <<>> THEN 0
    ELSE (IF Head(rs).tag = tag THEN 1 ELSE 0) + CountTag(Tail(rs), tag)

\* ---------------------------------------------------------- construction

\* From<&[u8]>: the slice itself is the input, file_size is its length.
FromSlice(value) ==
    /\ input = Source("slice", value)
    /\ file_size = U64Of(Len(value))
    /\ cur_read = 0
    /\ callback = None
    /\ buffer_size = DEFAULT_BUFFER_SIZE

\* TryFrom<PathBuf>: file_size is the metadata's length at construction, the
\* input is the opened file. The file holds `value` when it is read, which is
\* `size` bytes unless the file changed after its metadata was read.
TryFromPath(value, size) ==
    /\ input = Source("file", value)
    /\ file_size = size
    /\ cur_read = 0
    /\ callback = None
    /\ buffer_size = DEFAULT_BUFFER_SIZE

\* The sizes the metadata may have reported for a file that holds n bytes when
\* it is read: n, or one byte less when the file grew in between; and, for a
\* file of one byte, the sizes at the top of the u64 range of Metadata::len().
FileSizes(n) ==
    {U64Of(n)}
    \cup (IF n > 0 THEN {U64Of(n - 1)} ELSE {})
    \cup (IF n = 1 THEN {U64MaxSigned, U64TopBit, U64Max} ELSE {})

Init ==
    /\ \/ \E n \in 0..MaxLen : \E size \in FileSizes(n) : TryFromPath(SourceOfLen(n), size)
       \/ \E n \in 0..MaxLen : FromSlice(SourceOfLen(n))
       \/ FromSlice(ScenarioSource)
    /\ results = <<>>
    /\ calls = <<>>
    /\ configs = 0
    /\ requested = [callback |-> None, buffer_size |-> <<>>]
    /\ plain = [cur_read |-> 0, results |-> <<>>]

\* --------------------------------------------------------------- setters

\* The disturbances of the run so far, for a source in state inp.
Disturbances(inp) == configs + inp.pendings + Len(inp.errs)

\* The bound on the setter calls of a run.
MaySet == results = <<>> \/ Disturbances(input) < MaxDisturbances

\* configs after a setter call: calls before the first poll_next are not counted.
Counted == IF results = <<>> THEN configs ELSE configs + 1

\* Install that keeps a callback already installed.
InstallKeep(old, cb) == IF old = None THEN cb ELSE old

\* self.callback = Some(Box::new(callback)): the old callback is dropped.
Install(old, cb) == cb

\* with_callback(mut self, callback) -> Self
with_callback(cb) ==
    /\ MaySet
    /\ callback' = Install(callback, cb)
    /\ requested' = [requested EXCEPT !.callback = cb]
    /\ configs' = Counted
    /\ UNCHANGED <<input, file_size, cur_read, buffer_size, results, calls, plain>>

\* set_callback(&mut self, callback)
set_callback(cb) ==
    /\ MaySet
    /\ callback' = Install(callback, cb)
    /\ requested' = [requested EXCEPT !.callback = cb]
    /\ configs' = Counted
    /\ UNCHANGED <<input, file_size, cur_read, buffer_size, results, calls, plain>>

\* set_buffer_size that is ignored once the stream has been polled.
set_buffer_sizeBeforeFirstRead(n) ==
    /\ MaySet
    /\ buffer_size' = IF results = <<>> THEN n ELSE buffer_size
    /\ requested' = [requested EXCEPT !.buffer_size = <<n>>]
    /\ configs' = Counted
    /\ UNCHANGED <<input, file_size, cur_read, callback, results, calls, plain>>

\* set_buffer_size(&mut self, buffer_size)
set_buffer_size(n) ==
    /\ MaySet
    /\ buffer_size' = n
    /\ requested' = [requested EXCEPT !.buffer_size = <<n>>]
    /\ configs' = Counted
    /\ UNCHANGED <<input, file_size, cur_read, callback, results, calls, plain>>

\* The buffer sizes a caller hands to set_buffer_size.
BufferSizes == {0, 1, 2, DEFAULT_BUFFER_SIZE}

\* --------------------------------------------------------------- getters

\* u as i64: the sign and the magnitude of the value with the same 64 bits.
AsI64(u) ==
    IF u[4] >= Limb \div 2
    THEN [neg |-> TRUE, mag |-> U64WrappingSub(U64Zero, u)]
    ELSE [neg |-> FALSE, mag |-> u]

\* content_length(&self): self.file_size as i64
content_length == AsI64(file_size)

\* size_hint(&self), on a target whose usize has 64 bits: the results the
\* build can give. file_size - cur_read below 0 panics where overflow is
\* checked (debug builds) and wraps where it is not (release builds).
size_hint ==
    LET lower == U64WrappingSub(file_size, U64Of(cur_read))
        hint == [panic |-> FALSE, lower |-> lower, upper |-> file_size]
    IN IF U64Less(file_size, U64Of(cur_read))
       THEN {[panic |-> TRUE, lower |-> U64Zero, upper |-> U64Zero], hint}
       ELSE {hint}

\* ------------------------------------------------------------- poll_next

\* What a poll_next returned: "chunk" is Poll::Ready(Some(Ok(bytes))), "err" is
\* Poll::Ready(Some(Err(err))), "end" is Poll::Ready(None), "pending" is
\* Poll::Pending. cap is the buffer_size the call allocated its buffer with.
Item(tag, bytes, err, cap) == [tag |-> tag, bytes |-> bytes, err |-> err, cap |-> cap]

\* Capacity that ignores the configured size.
CapacityDefault(size) == DEFAULT_BUFFER_SIZE

\* Vec::with_capacity(buffer_size) as read_buf fills it: the number of bytes
\* one read may append. read_buf asks the vector for its spare capacity, and a
\* vector that has none (capacity 0) reserves 64 bytes before it answers.
Capacity(size) == IF size = 0 THEN 64 ELSE size

\* ReadOk that leaves the source where it was.
ReadOkNoAdvance(inp, n) ==
    [tag |-> "ok", n |-> n, err |-> "none",
     buf |-> SubSeq(inp.data, inp.pos + 1, inp.pos + n),
     inp |-> [inp EXCEPT !.polls = @ + 1]]

\* A poll of input.read_buf(&mut buf) that completed with n bytes: they are
\* the next n bytes of the source, which moves past them.
ReadOk(inp, n) ==
    [tag |-> "ok", n |-> n, err |-> "none",
     buf |-> SubSeq(inp.data, inp.pos + 1, inp.pos + n),
     inp |-> [inp EXCEPT !.pos = @ + n, !.polls = @ + 1]]

\* ReadPending that drops a byte the abandoned read had taken.
ReadPendingLoses(inp) ==
    [tag |-> "pending", n |-> 0, err |-> "none", buf |-> <<>>,
     inp |-> [inp EXCEPT !.pos = Min(@ + 1, Len(inp.data)), !.polls = @ + 1,
                         !.pendings = @ + 1]]

\* A poll that found the source not ready: nothing is consumed.
ReadPending(inp) ==
    [tag |-> "pending", n |-> 0, err |-> "none", buf |-> <<>>,
     inp |-> [inp EXCEPT !.polls = @ + 1, !.pendings = @ + 1]]

\* A poll that failed with error e: nothing is consumed.
ReadErr(inp, e) ==
    [tag |-> "err", n |-> 0, err |-> e, buf |-> <<>>,
     inp |-> [inp EXCEPT !.polls = @ + 1, !.errs = Append(@, e)]]

\* input.read_buf(&mut buf), polled once: the outcomes the source may produce
\* for a buffer that takes up to cap > 0 bytes. A slice is always ready and
\* copies as much as fits; any other reader may be pending, fail, or return
\* any non-zero count that fits, and 0 only at its end.
read_buf(inp, cap) ==
    LET most == Min(cap, Remaining(inp)) IN
    IF inp.kind = "slice" THEN {ReadOk(inp, most)}
    ELSE (IF Disturbances(inp) < MaxDisturbances
          THEN {ReadPending(inp)} \cup {ReadErr(inp, e) : e \in IoErrors}
          ELSE {})
         \cup (IF most = 0 THEN {ReadOk(inp, 0)} ELSE {ReadOk(inp, n) : n \in 1..most})

\* AddRead with the sum replaced by an assignment.
AddReadAssign(cur, read_op) == read_op

\* AddRead that counts the reads instead of their bytes.
AddReadOne(cur, read_op) == cur + 1

\* mut_self.cur_read += read_op as u64
AddRead(cur, read_op) == cur + read_op

\* Notify that calls the callback a second time for the same chunk.
NotifyTwice(cs, cb, total, sent, read_op, yielded) ==
    LET c == [cb |-> cb, total |-> total, sent |-> sent, cur |-> read_op,
              yielded |-> yielded]
    IN IF cb # None THEN Append(Append(cs, c), c) ELSE cs

\* Notify that passes the chunk's size where the bytes read so far belong.
NotifySwapped(cs, cb, total, sent, read_op, yielded) ==
    IF cb # None
    THEN Append(cs, [cb |-> cb, total |-> total, sent |-> read_op, cur |-> sent,
                     yielded |-> yielded])
    ELSE cs

\* callback(file_size, cur_read, read_op), when a callback is installed.
\* yielded is the number of chunks the stream had yielded when it was called.
Notify(cs, cb, total, sent, read_op, yielded) ==
    IF cb # None
    THEN Append(cs, [cb |-> cb, total |-> total, sent |-> sent, cur |-> read_op,
                     yielded |-> yielded])
    ELSE cs

\* ChunkOf with the buffer resized past the bytes read (one zero byte added).
ChunkOfResized(buf, read_op) == SubSeq(buf, 1, read_op) \o <<0>>

\* Bytes::from(Vec::from(&buf[0..read_op]))
ChunkOf(buf, read_op) == SubSeq(buf, 1, read_op)

\* ErrItem that reports one fixed error instead of the read's.
ErrItemGeneric(e, cap) == Item("err", <<>>, "Other", cap)

\* Poll::Ready(Some(Err(Box::new(res.err().unwrap()))))
ErrItem(e, cap) == Item("err", <<>>, e, cap)

\* Pulled with the count kept inside the block that calls the callback.
PulledCountsInsideIf(cur, cb, r, size) ==
    IF r.tag = "pending" THEN [cur_read |-> cur, item |-> Item("pending", <<>>, "none", size)]
    ELSE IF r.tag = "err" THEN [cur_read |-> cur, item |-> ErrItem(r.err, size)]
    ELSE IF r.n = 0 THEN [cur_read |-> cur, item |-> Item("end", <<>>, "none", size)]
    ELSE [cur_read |-> IF cb # None THEN AddRead(cur, r.n) ELSE cur,
          item |-> Item("chunk", ChunkOf(r.buf, r.n), "none", size)]

\* What poll_next leaves in cur_read and what it returns, for a stream with
\* cur_read cur, callback cb and buffer_size size whose read gave r. The count
\* and the item are computed outside the `if callback.is_some()` block, so cb
\* does not enter.
Pulled(cur, cb, r, size) ==
    IF r.tag = "pending" THEN [cur_read |-> cur, item |-> Item("pending", <<>>, "none", size)]
    ELSE IF r.tag = "err" THEN [cur_read |-> cur, item |-> ErrItem(r.err, size)]
    ELSE IF r.n = 0 THEN [cur_read |-> cur, item |-> Item("end", <<>>, "none", size)]
    ELSE [cur_read |-> AddRead(cur, r.n),
          item |-> Item("chunk", ChunkOf(r.buf, r.n), "none", size)]

poll_next ==
    /\ Len(results) < MaxPulls
    /\ \E r \in read_buf(input, Capacity(buffer_size)) :
        /\ input' = r.inp
        /\ LET p == Pulled(cur_read, callback, r, buffer_size)
           IN /\ cur_read' = p.cur_read
              /\ results' = Append(results, p.item)
              /\ calls' = IF p.item.tag = "chunk"
                          THEN Notify(calls, callback, file_size, p.cur_read, r.n,
                                      Len(ChunksOf(results)))
                          ELSE calls
        /\ LET q == Pulled(plain.cur_read, None, r, buffer_size)
           IN plain' = [cur_read |-> q.cur_read,
                        results |-> Append(plain.results, q.item)]
    /\ UNCHANGED <<file_size, callback, buffer_size, configs, requested>>

\* --------------------------------------------------------- specification

Next ==
    \/ poll_next
    \/ \E cb \in Callbacks : with_callback(cb)
    \/ \E cb \in Callbacks : set_callback(cb)
    \/ \E n \in BufferSizes : set_buffer_size(n)

Spec == Init /\ [][Next]_vars

\* The consumer keeps polling the stream for as long as a poll is possible.
SpecFair == Spec /\ WF_vars(poll_next)

\* ---------------------------------------------------------------- claims

Chunks == ChunksOf(results)

\* The bytes the source holds.
N == Len(input.data)

\* The last poll_next signalled the clean end.
AtEnd == results # <<>> /\ results[Len(results)].tag = "end"

\* Every poll_next so far ran with a buffer_size above 0.
PositiveSizes == \A i \in 1..Len(results) : results[i].cap > 0

\* Every poll_next that yielded a chunk called a callback.
CalledForEveryChunk == Len(calls) = Len(Chunks)

\* C1: when the stream, pulled with chunk sizes above 0, signals the clean end,
\* the lengths of the chunks it yielded add up to the size of the source, and
\* the last callback invocation was given that size as the bytes read so far;
\* there is such an invocation when the source is not empty and the callback
\* was installed throughout.
C1_TotalAtEnd ==
    (AtEnd /\ PositiveSizes) =>
        /\ SumLen(Chunks) = N
        /\ calls # <<>> => calls[Len(calls)].sent = N
        /\ (CalledForEveryChunk /\ callback # None /\ N > 0) => calls # <<>>

C1_Witness ==
    /\ AtEnd /\ PositiveSizes
    /\ Len(Chunks) >= 2
    /\ Len(calls) = Len(Chunks)
    /\ calls[Len(calls)].sent = N

\* The source offset at which chunk k starts.
OffsetOf(k) == SumLen(SubSeq(Chunks, 1, k - 1))

\* C2: the chunks yielded so far, concatenated in the order yielded, are the
\* first cur_read bytes of the source: chunk k holds the source bytes from
\* where chunk k-1 ended, and nothing else.
C2_ChunksArePrefix ==
    /\ Concat(Chunks) = SubSeq(input.data, 1, cur_read)
    /\ \A k \in 1..Len(Chunks) :
          Chunks[k] = SubSeq(input.data, OffsetOf(k) + 1, OffsetOf(k) + Len(Chunks[k]))
    /\ SumLen(Chunks) = cur_read
    /\ input.pos = cur_read

C2_Witness ==
    /\ Len(Chunks) >= 2
    /\ Len(Chunks[1]) < Capacity(results[1].cap)
    /\ Len(input.errs) + input.pendings > 0
    /\ cur_read = N

\* C3: with a callback installed, a poll_next that yields a chunk invokes the
\* callback exactly once, and one that returns pending, the clean end or an
\* error does not invoke it; so from the first invocation on, the number of
\* invocations grows with the number of chunks.
C3_OncePerChunk ==
    /\ [][(callback # None /\ results' # results) =>
            Len(calls') = Len(calls)
                          + (IF results'[Len(results')].tag = "chunk" THEN 1 ELSE 0)]_vars
    /\ [](calls # <<>> => Len(calls) = Len(Chunks) - calls[1].yielded)

C3_Witness ==
    /\ callback # None
    /\ Len(calls) = 2 /\ Len(Chunks) = 2
    /\ AtEnd
    /\ Len(input.errs) + input.pendings > 0

\* The sum of the third arguments of the first j callback invocations.
RECURSIVE SumCur(_)
SumCur(j) == IF j = 0 THEN 0 ELSE calls[j].cur + SumCur(j - 1)

\* C4 as stated: every invocation is given file_size, then the sum of the
\* third arguments of the invocations up to it, then the length of the chunk
\* its poll_next yields.
C4_SentIsSumOfCurs ==
    \A j \in 1..Len(calls) :
        /\ calls[j].total = file_size
        /\ calls[j].sent = SumCur(j)
        /\ calls[j].cur = Len(Chunks[calls[j].yielded + 1])

\* C4, amended: a poll_next that reads n > 0 bytes adds n to cur_read, then
\* invokes the callback with file_size, the new cur_read and n, then yields
\* the chunk of n bytes. The second argument is the length of all chunks up to
\* and including that one; it is the sum of the third arguments of the
\* invocations so far when the callback was installed before the first chunk.
C4_SentIsBytesRead ==
    \A j \in 1..Len(calls) :
        /\ calls[j].total = file_size
        /\ calls[j].yielded < Len(Chunks)
        /\ calls[j].cur = Len(Chunks[calls[j].yielded + 1])
        /\ calls[j].sent = SumLen(SubSeq(Chunks, 1, calls[j].yielded + 1))
        /\ calls[j].yielded = calls[1].yielded + j - 1
        /\ calls[1].yielded = 0 => calls[j].sent = SumCur(j)
        /\ j = Len(calls) => calls[j].sent = cur_read

C4_Witness ==
    /\ Len(calls) = 2
    /\ calls[1].yielded = 0
    /\ calls[2].sent = N
    /\ calls[2].cur < calls[2].sent
    /\ file_size # U64Of(N)

\* Every poll_next so far ran with buffer_size C.
FixedSize(C) == \A i \in 1..Len(results) : results[i].cap = C

CeilDiv(a, b) == (a + b - 1) \div b

\* Every chunk is as long as its buffer and the rest of the source allow.
FullReads(C) ==
    \A k \in 1..Len(Chunks) : Len(Chunks[k]) = Min(C, N - OffsetOf(k))

\* A run over a source of the size captured at construction, with one chunk
\* size C > 0, pulled to the clean end, whose callback was installed before
\* the first chunk.
CountedRun(C) ==
    /\ C > 0
    /\ file_size = U64Of(N)
    /\ AtEnd
    /\ FixedSize(C)
    /\ callback # None
    /\ CalledForEveryChunk

\* C5 as stated: pulled to the clean end with chunk size C > 0 and a callback,
\* the callback has fired ceil(N / C) times (0 times when N = 0).
C5_ExactlyCeil ==
    \A C \in BufferSizes : CountedRun(C) => Len(calls) = CeilDiv(N, C)

\* C5, amended: it has fired at least ceil(N / C) and at most N times, and
\* exactly ceil(N / C) times when every read filled its buffer as far as the
\* source allowed, which the reads of a slice do.
C5_CeilWhenReadsFill ==
    \A C \in BufferSizes : CountedRun(C) =>
        /\ CeilDiv(N, C) <= Len(calls)
        /\ Len(calls) <= N
        /\ FullReads(C) => Len(calls) = CeilDiv(N, C)
        /\ input.kind = "slice" => FullReads(C)

C5_Witness ==
    /\ CountedRun(1)
    /\ N = 2
    /\ Len(calls) = 2
    /\ input.kind = "slice"

\* C6: a stream built from a slice of N bytes and pulled with chunk size
\* C > 0 yields min(C, N - (k-1)*C) bytes in pull k up to pull ceil(N / C) and
\* signals the clean end from the next pull on; 5000 bytes with chunk size
\* 2048 yield 2048, 2048, 904 bytes and then the end; an empty slice ends at
\* the first pull and never invokes the callback.
C6_SliceChunkLengths ==
    input.kind = "slice" =>
        /\ \A C \in BufferSizes : (C > 0 /\ FixedSize(C)) =>
              \A k \in 1..Len(results) :
                 IF k <= CeilDiv(N, C)
                 THEN /\ results[k].tag = "chunk"
                      /\ Len(results[k].bytes) = Min(C, N - (k - 1) * C)
                 ELSE results[k].tag = "end"
        /\ (N = 5000 /\ FixedSize(2048) /\ Len(results) >= 4) =>
              /\ Len(results[1].bytes) = 2048 /\ results[1].tag = "chunk"
              /\ Len(results[2].bytes) = 2048 /\ results[2].tag = "chunk"
              /\ Len(results[3].bytes) = 904 /\ results[3].tag = "chunk"
              /\ results[4].tag = "end"
        /\ N = 0 => (calls = <<>> /\ \A k \in 1..Len(results) : results[k].tag = "end")

C6_Witness ==
    /\ input.kind = "slice"
    /\ N = 5000
    /\ FixedSize(2048)
    /\ Len(results) = 4
    /\ AtEnd
    /\ Len(calls) = 3

\* C7: after a poll_next returned an error, no later poll_next yields a chunk.
C7_NoChunkAfterError ==
    \A i, j \in 1..Len(results) :
        (i < j /\ results[i].tag = "err") => results[j].tag # "chunk"

\* C8: a poll_next whose read fails returns an error item that carries the
\* read's error and no bytes, invokes no callback, and leaves cur_read, the
\* source offset and the chunks yielded before it as they were, those chunks
\* being the first cur_read bytes of the source.
C8_FailedReadYieldsError ==
    [][Len(input'.errs) # Len(input.errs) =>
         /\ results' = Append(results, results'[Len(results')])
         /\ results'[Len(results')].tag = "err"
         /\ results'[Len(results')].err = input'.errs[Len(input'.errs)]
         /\ results'[Len(results')].bytes = <<>>
         /\ calls' = calls
         /\ cur_read' = cur_read
         /\ input'.pos = input.pos
         /\ ChunksOf(results') = Chunks
         /\ Concat(ChunksOf(results')) = SubSeq(input.data, 1, cur_read')]_vars

C8_Witness ==
    /\ Len(results) >= 2
    /\ results[1].tag = "chunk"
    /\ results[2].tag = "err"
    /\ results[2].err = "Interrupted"
    /\ callback # None
    /\ Len(calls) = 1
    /\ cur_read = 1
    /\ N = 2

\* C9: after a poll_next signalled the clean end, every later poll_next
\* signals the clean end.
C9_EndIsFinal ==
    \A i, j \in 1..Len(results) :
        (i < j /\ results[i].tag = "end") => results[j].tag = "end"

\* C10: no poll_next runs with a buffer_size of 0.
C10_NoZeroSizePull ==
    \A i \in 1..Len(results) : results[i].cap # 0

\* C11: content_length() is not negative and equals file_size.
C11_ContentLengthIsTotal ==
    /\ content_length.neg = FALSE
    /\ content_length.mag = file_size

\* C12: size_hint() returns, without panicking, the lower bound
\* file_size - cur_read and the upper bound file_size, the subtraction does
\* not go below 0, and lower <= upper.
C12_SizeHintInRange ==
    \A h \in size_hint :
        /\ h.panic = FALSE
        /\ ~U64Less(file_size, U64Of(cur_read))
        /\ h.lower = U64WrappingSub(file_size, U64Of(cur_read))
        /\ h.upper = file_size
        /\ ~U64Less(h.upper, h.lower)

\* The item the last poll_next returned, in the state after it.
LastItem(rs) == rs[Len(rs)]

\* C13: a poll_next whose read is not ready returns pending and changes
\* nothing else: cur_read, file_size, buffer_size, the callback and the
\* invocations stay, the source keeps its bytes and its offset, and the chunks
\* yielded stay the first cur_read bytes of the source.
C13_PendingChangesNothing ==
    [][input'.pendings # input.pendings =>
         /\ results' = Append(results, LastItem(results'))
         /\ LastItem(results').tag = "pending"
         /\ LastItem(results').bytes = <<>>
         /\ <<cur_read', file_size', buffer_size', callback', calls'>>
              = <<cur_read, file_size, buffer_size, callback, calls>>
         /\ input'.pos = input.pos
         /\ input'.data = input.data
         /\ ChunksOf(results') = Chunks
         /\ Concat(Chunks) = SubSeq(input.data, 1, input'.pos)]_vars

C13_Witness ==
    /\ Len(results) = 3
    /\ results[1].tag = "chunk"
    /\ results[2].tag = "pending"
    /\ results[3].tag = "chunk"
    /\ Concat(Chunks) = input.data
    /\ callback # None
    /\ Len(calls) = 2

\* C14: cur_read is 0 until the first poll_next, never decreases, changes
\* only in a poll_next that yields a chunk, where it grows by the length of
\* that chunk, and is left alone by with_callback, set_callback and
\* set_buffer_size.
C14_CurReadCountsChunks ==
    /\ [](results = <<>> => cur_read = 0)
    /\ [][/\ cur_read' >= cur_read
          /\ (results' = results) => (cur_read' = cur_read)
          /\ results' # results =>
                cur_read' = cur_read + (IF LastItem(results').tag = "chunk"
                                        THEN Len(LastItem(results').bytes) ELSE 0)
          /\ (results' # results /\ LastItem(results').tag = "chunk") =>
                cur_read' > cur_read]_vars

C14_Witness ==
    /\ cur_read = 3
    /\ Len(Chunks) = 2
    /\ configs = 1
    /\ Len(results) > 2

\* C15: for a source that holds exactly file_size bytes, cur_read never
\* exceeds file_size, and equals it exactly when every byte of the source has
\* been yielded.
C15_AtMostTotal ==
    file_size = U64Of(N) =>
        /\ cur_read <= N
        /\ ~U64Less(file_size, U64Of(cur_read))
        /\ (U64Of(cur_read) = file_size) <=> (Concat(Chunks) = input.data)

C15_Witness ==
    /\ file_size = U64Of(N)
    /\ N = 3
    /\ U64Of(cur_read) = file_size
    /\ Len(Chunks) = 2
    /\ AtEnd

\* C16: every chunk yielded holds at least one byte and at most as many
\* bytes as the buffer_size of its poll_next.
C16_ChunkWithinSize ==
    \A i \in 1..Len(results) :
        results[i].tag = "chunk" =>
            /\ Len(results[i].bytes) >= 1
            /\ Len(results[i].bytes) <= results[i].cap

\* C17: the stream holds one callback at most; a poll_next that yields a
\* chunk calls the callback handed to the last with_callback or set_callback,
\* once, and no other; without such a call it calls nothing.
C17_OnlyLatestCallback ==
    /\ [](callback = requested.callback)
    /\ [][(results' # results /\ LastItem(results').tag = "chunk") =>
            IF requested.callback = None
            THEN calls' = calls
            ELSE /\ Len(calls') = Len(calls) + 1
                 /\ SubSeq(calls', 1, Len(calls)) = calls
                 /\ calls'[Len(calls')].cb = requested.callback]_vars
    /\ [][(results' = results \/ LastItem(results').tag # "chunk") =>
            calls' = calls]_vars

C17_Witness ==
    /\ Len(calls) = 2
    /\ calls[1].cb = "cb1"
    /\ calls[2].cb = "cb2"
    /\ Len(Chunks) = 2

\* The size of the chunk a slice yields when read with a buffer allocated
\* with capacity n.
SliceChunk(n, remaining) == Min(IF n = 0 THEN 64 ELSE n, remaining)

HasTerminal == \E i \in 1..Len(results) : results[i].tag \in {"end", "err"}

\* C19: a stream over a source of N bytes that is polled again and again
\* returns the end of the stream or an error (in every run whose polls fit in
\* MaxPulls: N chunks, MaxDisturbances pending reads and the end), and while no
\* read has failed it has yielded N chunks at most, the source being used up
\* when it has yielded N.
C19_Terminates ==
    /\ (N + MaxDisturbances + 1 <= MaxPulls) => <>HasTerminal
    /\ [](Len(input.errs) = 0 =>
            /\ Len(Chunks) <= N
            /\ Len(Chunks) = N => Remaining(input) = 0)

C19_Witness ==
    /\ N = MaxLen
    /\ Len(Chunks) = N
    /\ input.pendings = 1
    /\ Len(input.errs) = 0
    /\ results[Len(results)].tag = "end"

\* C20: the items poll_next returns and cur_read after every poll_next are
\* those of the same stream without a callback.
C20_CallbackOnlyObserves ==
    /\ plain.results = results
    /\ plain.cur_read = cur_read

C20_Witness ==
    /\ Len(calls) = 2
    /\ callback # None
    /\ Len(plain.results) = 4
    /\ plain.results[2].tag = "pending"
    /\ plain.results[4].tag = "end"
    /\ plain.cur_read = N

====
